---------------------------- MODULE Spec2Model ----------------------------
(***************************************************************************)
(* rhythmtool: reorder the tracks of a Rhythmbox playlist by folder.       *)
(*                                                                         *)
(* Strings are sequences of byte values, so that percent-decoding, the     *)
(* "file://" prefix test, filepath.Split and strings.Compare are computed  *)
(* as the Go code computes them.                                           *)
(*   32 ' '  37 '%'  43 '+'  47 '/'  48..57 '0'..'9'  58 ':'               *)
(*   65..70 'A'..'F'  97..122 'a'..'z'                                     *)
(***************************************************************************)
EXTENDS Integers, Sequences, FiniteSets, TLC

(***************************************************************************)
(* Bounds of the model.                                                    *)
(***************************************************************************)
\* longest location slice handed to shuffle directly
MaxLen == 3
\* longest body (after the optional prefix) of a raw location in SpecKey
MaxBody == 3
\* most playlists in the file read by main
MaxPlaylists == 2

(***************************************************************************)
(* Byte strings.                                                           *)
(***************************************************************************)
\* "file://"
FilePrefix == <<102, 105, 108, 101, 58, 47, 47>>

\* length of the prefix tested by escapedStr[:7]
PrefixLen == 7

\* net/url ishex
IsHex(c) == (c \in 48..57) \/ (c \in 97..102) \/ (c \in 65..70)

\* net/url unhex
Unhex(c) ==
    IF c \in 48..57 THEN c - 48
    ELSE IF c \in 97..102 THEN c - 97 + 10
    ELSE IF c \in 65..70 THEN c - 65 + 10
    ELSE 0

\* first pass of net/url unescape: a '%' must be followed by two hex digits
RECURSIVE EscapeOk(_, _)
EscapeOk(s, i) ==
    IF i > Len(s) THEN TRUE
    ELSE IF s[i] = 37
         THEN IF i + 2 > Len(s) \/ ~IsHex(s[i + 1]) \/ ~IsHex(s[i + 2])
              THEN FALSE
              ELSE EscapeOk(s, i + 3)
         ELSE EscapeOk(s, i + 1)

\* second pass of net/url unescape in query mode: %XX -> byte, '+' -> ' '
RECURSIVE UnescapeFrom(_, _)
UnescapeFrom(s, i) ==
    IF i > Len(s) THEN <<>>
    ELSE IF s[i] = 37
         THEN <<Unhex(s[i + 1]) * 16 + Unhex(s[i + 2])>> \o UnescapeFrom(s, i + 3)
         ELSE IF s[i] = 43
              THEN <<32>> \o UnescapeFrom(s, i + 1)
              ELSE <<s[i]>> \o UnescapeFrom(s, i + 1)

\* url.QueryUnescape(string(l)): the decoded string, or an error
QueryUnescape(s) ==
    IF EscapeOk(s, 1)
    THEN [err |-> FALSE, str |-> UnescapeFrom(s, 1)]
    ELSE [err |-> TRUE, str |-> <<>>]

\* Location.Text: log.Fatal on a decoding error ("fatal"); the slice
\* expression escapedStr[:7] panics when the decoded string is shorter than
\* seven bytes ("panic"); otherwise the decoded string without "file://".
Text(l) ==
    LET u == QueryUnescape(l) IN
    IF u.err THEN [status |-> "fatal", str |-> <<>>]
    ELSE IF Len(u.str) < PrefixLen THEN [status |-> "panic", str |-> <<>>]
    ELSE IF SubSeq(u.str, 1, PrefixLen) = FilePrefix
         THEN [status |-> "ok", str |-> SubSeq(u.str, PrefixLen + 1, Len(u.str))]
         ELSE [status |-> "ok", str |-> u.str]

\* index of the final '/' of a path, 0 when it has none (loop of filepath.Split)
RECURSIVE LastSep(_, _)
LastSep(path, i) ==
    IF i = 0 THEN 0
    ELSE IF path[i] = 47 THEN i
    ELSE LastSep(path, i - 1)

\* filepath.Split on a Unix path: <<dir, file>> with dir ending at the final '/'
FilepathSplit(path) ==
    LET i == LastSep(path, Len(path)) IN
    <<SubSeq(path, 1, i), SubSeq(path, i + 1, Len(path))>>

\* Location.Split: Text, then filepath.Split; a failure of Text ends the run
Split(l) ==
    LET t == Text(l) IN
    IF t.status = "ok"
    THEN [status |-> "ok", dir |-> FilepathSplit(t.str)[1], file |-> FilepathSplit(t.str)[2]]
    ELSE [status |-> t.status, dir |-> <<>>, file |-> <<>>]

\* strings.Compare(a, b) == -1: a precedes b in byte order
RECURSIVE StrLess(_, _)
StrLess(a, b) ==
    IF b = <<>> THEN FALSE
    ELSE IF a = <<>> THEN TRUE
    ELSE IF Head(a) # Head(b) THEN Head(a) < Head(b)
    ELSE StrLess(Tail(a), Tail(b))

(***************************************************************************)
(* State.                                                                  *)
(***************************************************************************)
VARIABLES
    \* derived-key extraction of one location
    raw, keyPc, keyText, keyDir, keyFile,
    \* one call of shuffle: its arguments, locals and position
    locations, shuffleDirs, shuffleInDir, all, dirs, result, idx, pc,
    \* the slice as it was when shuffle was called, the number of calls made
    \* on it, and what the previous call returned
    input, calls, prev,
    \* main: the document in the file and as decoded, the loop index, the
    \* copy being built, the flags, the output file and main's position
    fileDoc, doc, plIdx, newP, doDisplay, doDisplayAll, outGiven, outFile, mainPc

keyVars == <<raw, keyPc, keyText, keyDir, keyFile>>
shuffleVars == <<locations, shuffleDirs, shuffleInDir, all, dirs, result, idx, pc>>
callVars == <<input, calls, prev>>
mainVars == <<fileDoc, doc, plIdx, newP, doDisplay, doDisplayAll, outGiven, outFile, mainPc>>
vars == <<keyVars, shuffleVars, callVars, mainVars>>

\* main is not running
MainIdle ==
    /\ fileDoc = <<>> /\ doc = <<>> /\ plIdx = 1 /\ newP = <<>>
    /\ doDisplay = FALSE /\ doDisplayAll = FALSE /\ outGiven = FALSE
    /\ outFile = "absent" /\ mainPc = "idle"

(***************************************************************************)
(* Derived-key extraction on one raw location (SpecKey).                   *)
(***************************************************************************)
\* bytes a raw location body is built from: '%' '+' '/' '2' 'F' 'a'
KeyAlphabet == {37, 43, 47, 50, 70, 97}

\* beginnings of a raw location: none, "file://", "file:/", "file%3A//"
KeyPrefixes ==
    { <<>>,
      FilePrefix,
      <<102, 105, 108, 101, 58, 47>>,
      <<102, 105, 108, 101, 37, 51, 65, 47, 47>> }

RECURSIVE StringsUpTo(_, _)
StringsUpTo(alphabet, n) ==
    IF n = 0 THEN {<<>>}
    ELSE LET shorter == StringsUpTo(alphabet, n - 1) IN
         shorter \cup {Append(s, c) : s \in shorter, c \in alphabet}

RawSet == {p \o b : p \in KeyPrefixes, b \in StringsUpTo(KeyAlphabet, MaxBody)}

KeyInit ==
    /\ raw \in RawSet
    /\ keyPc = "text"
    /\ keyText = <<>>
    /\ keyDir = <<>>
    /\ keyFile = <<>>
    /\ locations = <<>> /\ shuffleDirs = FALSE /\ shuffleInDir = FALSE
    /\ all = <<>> /\ dirs = <<>> /\ result = <<>> /\ idx = 1 /\ pc = "idle"
    /\ input = <<>> /\ calls = 0 /\ prev = <<>>
    /\ MainIdle

\* text := l.Text()
KeyText ==
    /\ keyPc = "text"
    /\ LET t == Text(raw) IN
        /\ keyPc' = IF t.status = "ok" THEN "split" ELSE t.status
        /\ keyText' = t.str
    /\ UNCHANGED <<raw, keyDir, keyFile, shuffleVars, callVars, mainVars>>

\* return filepath.Split(text)
KeySplit ==
    /\ keyPc = "split"
    /\ keyDir' = FilepathSplit(keyText)[1]
    /\ keyFile' = FilepathSplit(keyText)[2]
    /\ keyPc' = "done"
    /\ UNCHANGED <<raw, keyText, shuffleVars, callVars, mainVars>>

KeyNext == KeyText \/ KeySplit

SpecKey == KeyInit /\ [][KeyNext]_vars

\* the decoded string with a leading "file://" removed when present
Stripped(decoded) ==
    IF Len(decoded) >= Len(FilePrefix)
       /\ SubSeq(decoded, 1, Len(FilePrefix)) = FilePrefix
    THEN SubSeq(decoded, Len(FilePrefix) + 1, Len(decoded))
    ELSE decoded

\* C6: for every raw location whose percent-decoding succeeds, of any length,
\* key extraction ends with (GroupKey, LeafName) such that GroupKey \o LeafName
\* is the decoded string without a leading "file://" and LeafName holds no '/'.
C6_KeyExtraction ==
    (keyPc \in {"done", "panic"} /\ ~QueryUnescape(raw).err) =>
        /\ keyPc = "done"
        /\ keyDir \o keyFile = Stripped(QueryUnescape(raw).str)
        /\ \A k \in 1..Len(keyFile) : keyFile[k] # 47

(***************************************************************************)
(* The locations shuffle is checked on.                                    *)
(***************************************************************************)
\* "file:///a/10"
LocA10 == FilePrefix \o <<47, 97, 47, 49, 48>>
\* "file:///a/2"
LocA2 == FilePrefix \o <<47, 97, 47, 50>>
\* "file://%2Fa/2": another raw value with the folder and leaf of LocA2
LocA2Esc == FilePrefix \o <<37, 50, 70, 97, 47, 50>>
\* "file:///b/1"
LocB1 == FilePrefix \o <<47, 98, 47, 49>>
\* "/c/song": no scheme prefix
LocC == <<47, 99, 47, 115, 111, 110, 103>>
\* "file:///a/%": malformed percent-encoding
LocBad == FilePrefix \o <<47, 97, 47, 37>>
\* "a/b": decodes to fewer than seven bytes
LocShort == <<97, 47, 98>>

LocSet == {LocA10, LocA2, LocA2Esc, LocB1, LocC, LocBad, LocShort}

RECURSIVE SeqsUpTo(_, _)
SeqsUpTo(S, n) ==
    IF n = 0 THEN {<<>>}
    ELSE LET shorter == SeqsUpTo(S, n - 1) IN
         shorter \cup {Append(s, x) : s \in shorter, x \in S}

(***************************************************************************)
(* Library routines shuffle calls.                                         *)
(***************************************************************************)
\* the swap callbacks: s[i], s[j] = s[j], s[i]
SwapDropped(s, i, j) == [s EXCEPT ![i] = s[j]]
Swap(s, i, j) == [s EXCEPT ![i] = s[j], ![j] = s[i]]

\* rand.Shuffle(n, swap): Fisher-Yates, for i := n-1 down to 1 a random
\* j in [0, i] and swap(i, j); the set of orders it can leave
RECURSIVE FisherYates(_, _)
FisherYates(s, i) ==
    IF i <= 1 THEN {s}
    ELSE UNION {FisherYates(Swap(s, i, j), i - 1) : j \in 1..i}

ShuffleOutcomes(s) == FisherYates(s, Len(s))

\* insertion sort as package sort runs it on slices of at most 12 elements:
\* for i := a+1; i < b; i++ { for j := i; j > a && less(j, j-1); j-- { swap(j, j-1) } }
RECURSIVE SinkString(_, _)
SinkString(s, j) ==
    IF j > 1 /\ StrLess(s[j], s[j - 1])
    THEN SinkString(Swap(s, j, j - 1), j - 1)
    ELSE s

RECURSIVE InsertStrings(_, _)
InsertStrings(s, i) ==
    IF i > Len(s) THEN s ELSE InsertStrings(SinkString(s, i), i + 1)

\* sort.Strings(dirs)
SortStringsNone(s) == s
SortStrings(s) == InsertStrings(s, 2)

\* the less callback of sort.Slice: strings.Compare(fileI, fileJ) == -1
LeafLessReversed(a, b) == StrLess(Split(b).file, Split(a).file)
LeafLess(a, b) == StrLess(Split(a).file, Split(b).file)

RECURSIVE SinkLocation(_, _)
SinkLocation(s, j) ==
    IF j > 1 /\ LeafLess(s[j], s[j - 1])
    THEN SinkLocation(Swap(s, j, j - 1), j - 1)
    ELSE s

RECURSIVE InsertLocations(_, _)
InsertLocations(s, i) ==
    IF i > Len(s) THEN s ELSE InsertLocations(SinkLocation(s, i), i + 1)

\* sort.Slice(thisDir, less)
SortSlice(s) == InsertLocations(s, 2)

(***************************************************************************)
(* shuffle, the variant that returns a reordered copy.                     *)
(***************************************************************************)
\* dir, _ := l.Split()
DirOfLeaf(l) == Split(l).file
DirOf(l) == Split(l).dir

\* if _, ok := all[dir]; !ok { dirs = append(dirs, dir) }
GroupDirsAlways(ds, groups, dir) == Append(ds, dir)
GroupDirs(ds, groups, dir) ==
    IF dir \in DOMAIN groups THEN ds ELSE Append(ds, dir)

\* all[dir] = append(all[dir], l)
GroupAll(groups, dir, l) ==
    [d \in DOMAIN groups \cup {dir} |->
        IF d = dir
        THEN (IF dir \in DOMAIN groups THEN Append(groups[dir], l) ELSE <<l>>)
        ELSE groups[d]]

\* what the reordering of dirs can leave, by the option shuffleDirs
DirsOutcomes(ds, sd) == IF sd THEN ShuffleOutcomes(ds) ELSE {SortStrings(ds)}

\* what the reordering of one directory can leave, by the option shuffleInDir
InDirOutcomesSwapped(s, sid) == IF sid THEN {SortSlice(s)} ELSE ShuffleOutcomes(s)
InDirOutcomes(s, sid) == IF sid THEN ShuffleOutcomes(s) ELSE {SortSlice(s)}

\* for _, dir := range dirs { result = append(result, all[dir]...) }
RECURSIVE Flatten(_, _, _)
Flatten(ds, groups, k) ==
    IF k > Len(ds) THEN <<>>
    ELSE groups[ds[k]] \o Flatten(ds, groups, k + 1)

\* one iteration of the grouping loop, or its end
Group ==
    /\ pc = "group"
    /\ IF idx > Len(locations)
       THEN /\ pc' = "orderDirs"
            /\ UNCHANGED <<all, dirs, idx>>
       ELSE LET l == locations[idx] IN
            IF Split(l).status # "ok"
            THEN /\ pc' = Split(l).status
                 /\ UNCHANGED <<all, dirs, idx>>
            ELSE /\ dirs' = GroupDirs(dirs, all, DirOf(l))
                 /\ all' = GroupAll(all, DirOf(l), l)
                 /\ idx' = idx + 1
                 /\ pc' = "group"
    /\ UNCHANGED <<locations, shuffleDirs, shuffleInDir, result, keyVars, callVars, mainVars>>

\* if shuffleDirs { rnd.Shuffle(len(dirs), ...) } else { sort.Strings(dirs) }
OrderDirs ==
    /\ pc = "orderDirs"
    /\ \E ds \in DirsOutcomes(dirs, shuffleDirs) : dirs' = ds
    /\ idx' = 1
    /\ pc' = "inDir"
    /\ UNCHANGED <<locations, shuffleDirs, shuffleInDir, all, result, keyVars, callVars, mainVars>>

\* one iteration of 'for _, dir := range dirs' reordering all[dir], or its end
InDir ==
    /\ pc = "inDir"
    /\ IF idx > Len(dirs)
       THEN /\ pc' = "flatten"
            /\ UNCHANGED <<all, idx>>
       ELSE /\ \E s \in InDirOutcomes(all[dirs[idx]], shuffleInDir) :
                    all' = [all EXCEPT ![dirs[idx]] = s]
            /\ idx' = idx + 1
            /\ pc' = "inDir"
    /\ UNCHANGED <<locations, shuffleDirs, shuffleInDir, dirs, result, keyVars, callVars, mainVars>>

\* build result, check its length, return it
Return ==
    /\ pc = "flatten"
    /\ result' = Flatten(dirs, all, 1)
    /\ pc' = IF Len(result') # Len(locations) THEN "fatal" ELSE "returned"
    /\ UNCHANGED <<locations, shuffleDirs, shuffleInDir, all, dirs, idx, keyVars, callVars, mainVars>>

\* most calls of shuffle made on one slice
MaxCalls == 2

\* shuffle is called once more on the same slice with the same options
CallAgain ==
    /\ pc = "returned"
    /\ calls < MaxCalls
    /\ calls' = calls + 1
    /\ prev' = result
    /\ all' = <<>> /\ dirs' = <<>> /\ result' = <<>> /\ idx' = 1
    /\ pc' = "group"
    /\ UNCHANGED <<locations, shuffleDirs, shuffleInDir, input, keyVars, mainVars>>

ShuffleInit ==
    /\ locations \in SeqsUpTo(LocSet, MaxLen)
    /\ input = locations
    /\ shuffleDirs \in BOOLEAN
    /\ shuffleInDir \in BOOLEAN
    /\ all = <<>> /\ dirs = <<>> /\ result = <<>> /\ idx = 1 /\ pc = "group"
    /\ calls = 1 /\ prev = <<>>
    /\ raw = <<>> /\ keyPc = "idle" /\ keyText = <<>> /\ keyDir = <<>> /\ keyFile = <<>>
    /\ MainIdle

ShuffleNext == Group \/ OrderDirs \/ InDir \/ Return \/ CallAgain

SpecShuffle == ShuffleInit /\ [][ShuffleNext]_vars

(***************************************************************************)
(* Properties of shuffle.                                                  *)
(***************************************************************************)
Range(s) == {s[k] : k \in 1..Len(s)}
Count(s, x) == Cardinality({k \in 1..Len(s) : s[k] = x})
Permutation(a, b) ==
    /\ Len(a) = Len(b)
    /\ \A x \in Range(a) \cup Range(b) : Count(a, x) = Count(b, x)

\* the derived attributes of a record
GroupKey(l) == FilepathSplit(Stripped(QueryUnescape(l).str))[1]
LeafName(l) == FilepathSplit(Stripped(QueryUnescape(l).str))[2]

\* the group keys and the leaf names of a sequence of records
RECURSIVE KeysFrom(_, _)
KeysFrom(s, k) ==
    IF k > Len(s) THEN <<>> ELSE <<GroupKey(s[k])>> \o KeysFrom(s, k + 1)

RECURSIVE LeavesFrom(_, _)
LeavesFrom(s, k) ==
    IF k > Len(s) THEN <<>> ELSE <<LeafName(s[k])>> \o LeavesFrom(s, k + 1)

Keys(s) == KeysFrom(s, 1)
Leaves(s) == LeavesFrom(s, 1)

\* the distinct elements of a sequence, in order of first appearance
RECURSIVE Distinct(_, _)
Distinct(ks, k) ==
    IF k > Len(ks) THEN <<>>
    ELSE IF \E h \in 1..(k - 1) : ks[h] = ks[k]
         THEN Distinct(ks, k + 1)
         ELSE <<ks[k]>> \o Distinct(ks, k + 1)

DistinctKeys(s) == Distinct(Keys(s), 1)

\* every folder's records form one contiguous run
Contiguous(s) ==
    LET ks == Keys(s) IN
    \A i \in 1..Len(ks) : \A j \in (i + 1)..Len(ks) :
        ks[i] = ks[j] => \A k \in i..j : ks[k] = ks[i]

\* C1: the sequence shuffle returns has the length and the multiset of
\* records of its input, whatever the two options.
C1_Permutation == pc = "returned" => Permutation(result, input)

C1_Witness ==
    /\ pc = "returned"
    /\ Len(result) = 3
    /\ result # input
    /\ \E i, j \in 1..Len(input) : i # j /\ input[i] = input[j]
    /\ \E i, j \in 1..Len(input) :
        input[i] # input[j] /\ GroupKey(input[i]) = GroupKey(input[j])

\* C2: in the returned sequence no record of another folder stands between
\* two records of the same folder, whatever the two options.
C2_Contiguous ==
    pc = "returned" => Contiguous(result)

C2_Witness ==
    /\ pc = "returned"
    /\ Len(input) = 3
    /\ GroupKey(input[1]) = GroupKey(input[3])
    /\ GroupKey(input[2]) # GroupKey(input[1])
    /\ shuffleDirs

\* C3: with shuffleDirs = FALSE the distinct group keys of the returned
\* sequence, in order of appearance, are in non-decreasing byte order.
C3_DirsSorted ==
    (pc = "returned" /\ ~shuffleDirs) =>
        LET keys == DistinctKeys(result) IN
        \A i, j \in 1..Len(keys) : i < j => ~StrLess(keys[j], keys[i])

C3_Witness ==
    /\ pc = "returned" /\ ~shuffleDirs
    /\ Len(DistinctKeys(result)) = 3
    /\ DistinctKeys(input) # DistinctKeys(result)

\* C4: with shuffleInDir = FALSE the leaf names of every run of returned
\* records sharing a group key are in non-decreasing byte order.
C4_LeavesSorted ==
    (pc = "returned" /\ ~shuffleInDir) =>
        LET ks == Keys(result)
            ls == Leaves(result) IN
        \A i \in 1..(Len(result) - 1) :
            ks[i] = ks[i + 1] => ~StrLess(ls[i + 1], ls[i])

\* a leaf starting "10" directly before a leaf starting "2", against input order
C4_Witness ==
    /\ pc = "returned" /\ ~shuffleInDir
    /\ \E i \in 1..(Len(result) - 1) :
        /\ result[i] = LocA10
        /\ LeafName(result[i + 1]) = <<50>>
    /\ \E i, j \in 1..Len(input) : i < j /\ input[j] = LocA10 /\ LeafName(input[i]) = <<50>>

\* C5: a second call shuffle(x, false, false) returns what the first returned.
C5_Deterministic ==
    (pc = "returned" /\ calls >= 2 /\ ~shuffleDirs /\ ~shuffleInDir) => result = prev

C5_Witness ==
    /\ pc = "returned" /\ calls >= 2 /\ ~shuffleDirs /\ ~shuffleInDir
    /\ result = prev
    /\ result # input
    /\ \E i, j \in 1..Len(input) :
        /\ input[i] # input[j]
        /\ GroupKey(input[i]) = GroupKey(input[j])
        /\ LeafName(input[i]) = LeafName(input[j])

\* C9: after the grouping loop dirs lists every distinct group key of the
\* input once, in order of first occurrence, and all[d] holds exactly the
\* input records of group key d in their input order.
C9_Grouping ==
    pc = "orderDirs" =>
        /\ dirs = DistinctKeys(input)
        /\ \A i, j \in 1..Len(dirs) : i # j => dirs[i] # dirs[j]
        /\ DOMAIN all = Range(dirs)
        /\ \A d \in DOMAIN all :
            all[d] = SelectSeq(input, LAMBDA l : GroupKey(l) = d)

C9_Witness ==
    /\ pc = "orderDirs"
    /\ Len(input) = 3
    /\ Len(dirs) = 2
    /\ input[1] # input[3]
    /\ GroupKey(input[1]) = GroupKey(input[3])

(***************************************************************************)
(* shuffle, the variant of rhythmbox.go that reorders the slice in place   *)
(* (SpecInPlace).                                                          *)
(***************************************************************************)
\* copy(locations, result): the first min(len) elements are overwritten
Copy(dst, src) ==
    [k \in 1..Len(dst) |-> IF k <= Len(src) THEN src[k] ELSE dst[k]]

\* one iteration of the grouping loop, which appends dir for every location
InPlaceGroup ==
    /\ pc = "group"
    /\ IF idx > Len(locations)
       THEN /\ pc' = "orderDirs"
            /\ UNCHANGED <<all, dirs, idx>>
       ELSE LET l == locations[idx] IN
            IF Split(l).status # "ok"
            THEN /\ pc' = Split(l).status
                 /\ UNCHANGED <<all, dirs, idx>>
            ELSE /\ dirs' = Append(dirs, Split(l).dir)
                 /\ all' = GroupAll(all, Split(l).dir, l)
                 /\ idx' = idx + 1
                 /\ pc' = "group"
    /\ UNCHANGED <<locations, shuffleDirs, shuffleInDir, result, keyVars, callVars, mainVars>>

\* if shuffleDirs { rand.Shuffle(len(dirs), ...) } else { sort.Strings(dirs) }
InPlaceOrderDirs == OrderDirs

\* one iteration of 'for _, dir := range dirs' reordering all[dir], or its end
InPlaceInDir == InDir

\* build result and copy it over the caller's slice
InPlaceCopy ==
    /\ pc = "flatten"
    /\ result' = Flatten(dirs, all, 1)
    /\ locations' = Copy(locations, result')
    /\ pc' = "returned"
    /\ UNCHANGED <<shuffleDirs, shuffleInDir, all, dirs, idx, keyVars, callVars, mainVars>>

InPlaceNext == InPlaceGroup \/ InPlaceOrderDirs \/ InPlaceInDir \/ InPlaceCopy

SpecInPlace == ShuffleInit /\ [][InPlaceNext]_vars

\* C8: after the in-place shuffle the slice holds a permutation of its
\* original contents, each folder's records contiguous.
C8_InPlacePermutation ==
    pc = "returned" =>
        /\ Permutation(locations, input)
        /\ Contiguous(locations)

(***************************************************************************)
(* main: read the playlists, append a reordered copy of the first static   *)
(* playlist, write the document when -out is given.                        *)
(***************************************************************************)
\* track lists of the playlists in the file
TrackLists == {<<>>, <<LocB1, LocA2>>, <<LocA2, LocBad>>, <<LocShort>>}

\* a playlist: Locations, Name, Type and SortDirection (a pointer: <<>> is
\* nil, the attribute being absent); the other attributes are carried along
\* like Type
PlaylistSet ==
    [Locations : TrackLists, Name : {<<"mix">>}, Type : {"static"},
     SortDirection : {<<>>, <<0>>}]
    \cup
    [Locations : {<<>>, <<LocB1, LocA2>>}, Name : {<<"auto">>}, Type : {"automatic"},
     SortDirection : {<<0>>}]

\* values of rnd.Int31() % (1 << 24) and of time.Now().Format("2006-01-02")
RandNums == {0, 16777215}
Dates == {"2026-11-04"}

\* fmt.Sprintf("_SHUFFLED_%s_%d", date, randNum), appended to the name
Renamed(name, date, randNum) ==
    name \o <<"_SHUFFLED_", date, "_", ToString(randNum)>>

\* doc.Playlists = append(doc.Playlists, newP)
ReplacePlaylist(playlists, k, p) == [playlists EXCEPT ![k] = p]
AppendPlaylist(playlists, k, p) == Append(playlists, p)

\* l.Text() for every location in turn: how the first failure, if any, ends
RECURSIVE TextAll(_, _)
TextAll(locs, k) ==
    IF k > Len(locs) THEN "ok"
    ELSE IF Text(locs[k]).status # "ok" THEN Text(locs[k]).status
    ELSE TextAll(locs, k + 1)

\* display(&p): prints; dereferences p.SortDirection
DisplayOutcome(p, displayAll) ==
    IF displayAll /\ TextAll(p.Locations, 1) # "ok" THEN TextAll(p.Locations, 1)
    ELSE IF p.SortDirection = <<>> THEN "panic"
    ELSE "ok"

MainInit ==
    /\ fileDoc \in SeqsUpTo(PlaylistSet, MaxPlaylists)
    /\ doc = <<>>
    /\ shuffleDirs \in BOOLEAN
    /\ shuffleInDir \in BOOLEAN
    /\ doDisplay \in BOOLEAN
    /\ doDisplayAll \in BOOLEAN
    /\ outGiven \in BOOLEAN
    /\ outFile = "absent"
    /\ mainPc = "start"
    /\ plIdx = 1
    /\ newP = <<>>
    /\ locations = <<>> /\ input = <<>>
    /\ all = <<>> /\ dirs = <<>> /\ result = <<>> /\ idx = 1 /\ pc = "idle"
    /\ calls = 0 /\ prev = <<>>
    /\ raw = <<>> /\ keyPc = "idle" /\ keyText = <<>> /\ keyDir = <<>> /\ keyFile = <<>>

\* flag.Parse(); -displayAll=true implies -display=true
ParseFlags ==
    /\ mainPc = "start"
    /\ doDisplay' = (doDisplay \/ doDisplayAll)
    /\ mainPc' = "home"
    /\ UNCHANGED <<doc, fileDoc, plIdx, newP, doDisplayAll, outGiven, outFile,
                   keyVars, shuffleVars, callVars>>

\* os.UserHomeDir()
UserHomeDir ==
    /\ mainPc = "home"
    /\ \E ok \in BOOLEAN : mainPc' = IF ok THEN "open" ELSE "fatal"
    /\ UNCHANGED <<doc, fileDoc, plIdx, newP, doDisplay, doDisplayAll, outGiven, outFile,
                   keyVars, shuffleVars, callVars>>

\* os.Open(playlistsPath)
Open ==
    /\ mainPc = "open"
    /\ \E ok \in BOOLEAN : mainPc' = IF ok THEN "decode" ELSE "fatal"
    /\ UNCHANGED <<doc, fileDoc, plIdx, newP, doDisplay, doDisplayAll, outGiven, outFile,
                   keyVars, shuffleVars, callVars>>

\* decoder.Decode(doc)
Decode ==
    /\ mainPc = "decode"
    /\ \E ok \in BOOLEAN :
        IF ok THEN doc' = fileDoc /\ mainPc' = "loop"
        ELSE doc' = doc /\ mainPc' = "fatal"
    /\ plIdx' = 1
    /\ UNCHANGED <<fileDoc, newP, doDisplay, doDisplayAll, outGiven, outFile,
                   keyVars, shuffleVars, callVars>>

\* for _, p := range doc.Playlists: skip a playlist that is not static
Loop ==
    /\ mainPc = "loop"
    /\ IF plIdx > Len(fileDoc)
       THEN mainPc' = "output" /\ plIdx' = plIdx
       ELSE IF doc[plIdx].Type # "static"
            THEN mainPc' = "loop" /\ plIdx' = plIdx + 1
            ELSE mainPc' = (IF doDisplay THEN "display" ELSE "copy") /\ plIdx' = plIdx
    /\ UNCHANGED <<doc, fileDoc, newP, doDisplay, doDisplayAll, outGiven, outFile,
                   keyVars, shuffleVars, callVars>>

\* if *doDisplay { display(&p) }
Display ==
    /\ mainPc = "display"
    /\ LET o == DisplayOutcome(doc[plIdx], doDisplayAll) IN
        mainPc' = IF o = "ok" THEN "copy" ELSE o
    /\ UNCHANGED <<doc, fileDoc, plIdx, newP, doDisplay, doDisplayAll, outGiven, outFile,
                   keyVars, shuffleVars, callVars>>

\* newP := p; newP.Name += ...; shuffle(p.Locations, *shuffleDirs, *shuffleInDir)
CallShuffle ==
    /\ mainPc = "copy"
    /\ \E d \in Dates, r \in RandNums :
        newP' = [doc[plIdx] EXCEPT !.Name = Renamed(doc[plIdx].Name, d, r)]
    /\ locations' = doc[plIdx].Locations
    /\ input' = doc[plIdx].Locations
    /\ calls' = calls + 1
    /\ all' = <<>> /\ dirs' = <<>> /\ result' = <<>> /\ idx' = 1
    /\ pc' = "group"
    /\ mainPc' = "shuffle"
    /\ UNCHANGED <<doc, fileDoc, plIdx, doDisplay, doDisplayAll, outGiven, outFile,
                   shuffleDirs, shuffleInDir, prev, keyVars>>

\* newP.Locations = <returned>; doc.Playlists = append(doc.Playlists, newP); break
\* p.Locations shares its array with doc.Playlists[plIdx].Locations
AppendCopy ==
    /\ mainPc = "shuffle"
    /\ pc = "returned"
    /\ newP' = [newP EXCEPT !.Locations = result]
    /\ doc' = AppendPlaylist([doc EXCEPT ![plIdx].Locations = locations], plIdx, newP')
    /\ mainPc' = "output"
    /\ pc' = "idle"
    /\ UNCHANGED <<fileDoc, plIdx, doDisplay, doDisplayAll, outGiven, outFile,
                   locations, shuffleDirs, shuffleInDir, all, dirs, result, idx,
                   keyVars, callVars>>

\* if *out != "" { os.Create(*out) }
Create ==
    /\ mainPc = "output"
    /\ IF ~outGiven
       THEN mainPc' = "done" /\ outFile' = outFile
       ELSE \E ok \in BOOLEAN :
            IF ok THEN mainPc' = "header" /\ outFile' = "created"
            ELSE mainPc' = "fatal" /\ outFile' = outFile
    /\ UNCHANGED <<doc, fileDoc, plIdx, newP, doDisplay, doDisplayAll, outGiven,
                   keyVars, shuffleVars, callVars>>

\* outFile.WriteString(`<?xml version="1.0"?>` + "\n")
WriteHeader ==
    /\ mainPc = "header"
    /\ \E ok \in BOOLEAN :
        IF ok THEN mainPc' = "encode" /\ outFile' = "header"
        ELSE mainPc' = "fatal" /\ outFile' = outFile
    /\ UNCHANGED <<doc, fileDoc, plIdx, newP, doDisplay, doDisplayAll, outGiven,
                   keyVars, shuffleVars, callVars>>

\* encoder.Encode(doc)
Encode ==
    /\ mainPc = "encode"
    /\ \E ok \in BOOLEAN :
        IF ok THEN mainPc' = "done" /\ outFile' = "written"
        ELSE mainPc' = "fatal" /\ outFile' = "partial"
    /\ UNCHANGED <<doc, fileDoc, plIdx, newP, doDisplay, doDisplayAll, outGiven,
                   keyVars, shuffleVars, callVars>>

\* the program starts in main; shuffle is also entered directly on a slice
Init == MainInit \/ ShuffleInit

Next ==
    \/ ParseFlags \/ UserHomeDir \/ Open \/ Decode \/ Loop \/ Display
    \/ CallShuffle \/ Group \/ OrderDirs \/ InDir \/ Return \/ AppendCopy
    \/ Create \/ WriteHeader \/ Encode

Spec == Init /\ [][Next]_vars

(***************************************************************************)
(* Properties of main.                                                     *)
(***************************************************************************)
\* the run has ended in log.Fatal, in main or in the shuffle it called
Fatal == mainPc = "fatal" \/ (mainPc = "shuffle" /\ pc = "fatal")

\* C7: when a run of main ends in a fatal condition, no output file has been
\* created or written.
C7_NoFileOnFailure == Fatal => outFile = "absent"

\* the playlist loop is over
AfterLoop == mainPc \in {"output", "header", "encode", "done"}

HasStatic(d) == \E k \in 1..Len(d) : d[k].Type = "static"

FirstStatic(d) ==
    CHOOSE k \in 1..Len(d) :
        d[k].Type = "static" /\ \A h \in 1..(k - 1) : d[h].Type # "static"

\* p is a renamed, reordered copy of src
RenamedCopy(p, src) ==
    /\ p.Type = src.Type
    /\ p.SortDirection = src.SortDirection
    /\ Len(p.Name) > Len(src.Name)
    /\ SubSeq(p.Name, 1, Len(src.Name)) = src.Name
    /\ Permutation(p.Locations, src.Locations)

\* C10: shuffle returns with the caller's slice as it was; after main's loop
\* the playlists read from the file are unchanged and in place, followed by
\* one renamed reordered copy of the first static playlist when there is
\* one, and by nothing otherwise.
C10_InputsUntouched ==
    /\ pc = "returned" => locations = input
    /\ mainPc \in {"loop", "display", "copy", "shuffle"} => doc = fileDoc
    /\ AfterLoop =>
        /\ Len(doc) >= Len(fileDoc)
        /\ SubSeq(doc, 1, Len(fileDoc)) = fileDoc
        /\ IF HasStatic(fileDoc)
           THEN /\ Len(doc) = Len(fileDoc) + 1
                /\ RenamedCopy(doc[Len(doc)], fileDoc[FirstStatic(fileDoc)])
           ELSE Len(doc) = Len(fileDoc)

C10_Witness ==
    /\ mainPc = "done"
    /\ outFile = "written"
    /\ Len(fileDoc) = 2
    /\ fileDoc[1].Type = "automatic"
    /\ fileDoc[2].Type = "static"
    /\ Len(doc) = 3
    /\ doc[3].Locations # fileDoc[2].Locations
    /\ locations = input

=============================================================================
